---- MODULE Spec2Model ----
(***************************************************************************)
(* A model of game/rules.go: the Rules value of a Go engine, its named     *)
(* presets, its key/value update and its textual renderings.               *)
(*                                                                         *)
(* Rules values live in a heap of objects; a *Rules is an index into it    *)
(* and Nil is the nil pointer.  Komi is a float32 in the source; here it   *)
(* is the number of quarter points (7.5 is 30), which is exact for every   *)
(* multiple of 0.25 between MIN_USER_KOMI and MAX_USER_KOMI.  A Go string  *)
(* that the code only compares is a TLA+ string; a Go string the code      *)
(* edits character by character (a preset name) is a sequence of           *)
(* one-character strings.                                                  *)
(***************************************************************************)
EXTENDS Integers, Sequences, FiniteSets

VARIABLES heap, prev, last

vars == <<heap, prev, last>>

(***************************************************************************)
(* Enumerations (iota blocks) and constants                                *)
(***************************************************************************)
KO_SIMPLE == 0
KO_POSITIONAL == 1
KO_SITUATIONAL == 2
KO_SPIGHT == 3

SCORE_AREA == 0
SCORE_TERRITORY == 1

TAX_NONE == 0
TAX_SEKI == 1
TAX_ALL == 2

WHB_ZERO == 0
WHB_N == 1
WHB_N_MINUS_ONE == 2

MIN_USER_KOMI == -150
MAX_USER_KOMI == 150

\* The nil pointer; heap addresses start at 1.
Nil == 0

\* A float32 literal of the source, in quarter points.
Komi_6_5 == 26
Komi_7_0 == 28
Komi_7_5 == 30

\* type Rules struct
MkRules(ko, score, tax, whb, suicide, button, passOk, komi) ==
  [KoRule |-> ko, ScoringRule |-> score, TaxRule |-> tax,
   WhiteHandicapBonus |-> whb, MultiStoneSuicide |-> suicide,
   HasButton |-> button, FriendlyPassOk |-> passOk, Komi |-> komi]

\* The zero value of Rules (var r Rules, &Rules{}).
ZeroRules == MkRules(0, 0, 0, 0, FALSE, FALSE, FALSE, 0)

(***************************************************************************)
(* Enumeration parsers and writers.  A parser returns (value, error).      *)
(***************************************************************************)
ParseOk(n) == [val |-> n, err |-> FALSE]
ParseErr == [val |-> -1, err |-> TRUE]

parseKoRuleSwapped(s) ==
  CASE s = "SIMPLE" -> ParseOk(KO_SIMPLE)
    [] s = "POSITIONAL" -> ParseOk(KO_SITUATIONAL)
    [] s = "SITUATIONAL" -> ParseOk(KO_POSITIONAL)
    [] s = "SPIGHT" -> ParseOk(KO_SPIGHT)
    [] OTHER -> ParseErr

parseKoRule(s) ==
  CASE s = "SIMPLE" -> ParseOk(KO_SIMPLE)
    [] s = "POSITIONAL" -> ParseOk(KO_POSITIONAL)
    [] s = "SITUATIONAL" -> ParseOk(KO_SITUATIONAL)
    [] s = "SPIGHT" -> ParseOk(KO_SPIGHT)
    [] OTHER -> ParseErr

parseScoringRule(s) ==
  CASE s = "AREA" -> ParseOk(SCORE_AREA)
    [] s = "TERRITORY" -> ParseOk(SCORE_TERRITORY)
    [] OTHER -> ParseErr

parseTaxRule(s) ==
  CASE s = "NONE" -> ParseOk(TAX_NONE)
    [] s = "SEKI" -> ParseOk(TAX_SEKI)
    [] s = "ALL" -> ParseOk(TAX_ALL)
    [] OTHER -> ParseErr

parseWhiteHandicapBonus(s) ==
  CASE s = "ZERO" -> ParseOk(WHB_ZERO)
    [] s = "N" -> ParseOk(WHB_N)
    [] s = "N-1" -> ParseOk(WHB_N_MINUS_ONE)
    [] OTHER -> ParseErr

writeKoRule(koRule) ==
  CASE koRule = KO_SIMPLE -> "SIMPLE"
    [] koRule = KO_POSITIONAL -> "POSITIONAL"
    [] koRule = KO_SITUATIONAL -> "SITUATIONAL"
    [] koRule = KO_SPIGHT -> "SPIGHT"
    [] OTHER -> "UNKNOWN"

writeScoringRule(scoringRule) ==
  CASE scoringRule = SCORE_AREA -> "AREA"
    [] scoringRule = SCORE_TERRITORY -> "TERRITORY"
    [] OTHER -> "UNKNOWN"

writeTaxRule(taxRule) ==
  CASE taxRule = TAX_NONE -> "NONE"
    [] taxRule = TAX_SEKI -> "SEKI"
    [] taxRule = TAX_ALL -> "ALL"
    [] OTHER -> "UNKNOWN"

writeWhiteHandicapBonus(whiteHandicapBonus) ==
  CASE whiteHandicapBonus = WHB_ZERO -> "ZERO"
    [] whiteHandicapBonus = WHB_N -> "N"
    [] whiteHandicapBonus = WHB_N_MINUS_ONE -> "N-1"
    [] OTHER -> "UNKNOWN"

\* stringToBool: (false, error) for anything but the four literals.
stringToBool(s) ==
  IF s = "true" \/ s = "True" THEN [val |-> TRUE, err |-> FALSE]
  ELSE IF s = "false" \/ s = "False" THEN [val |-> FALSE, err |-> FALSE]
  ELSE [val |-> FALSE, err |-> TRUE]

(***************************************************************************)
(* UpdateRules: the receiver after the call and whether an error (and a    *)
(* nil *Rules) is returned.                                                *)
(***************************************************************************)
Updated(r) == [rules |-> r, err |-> FALSE]
Failed(r) == [rules |-> r, err |-> TRUE]

\* A bug: the parsed value is stored before the error is looked at.
StoreParsedUnchecked(r, f, p) ==
  IF p.err THEN Failed([r EXCEPT ![f] = p.val])
  ELSE Updated([r EXCEPT ![f] = p.val])

\* newVal, err := parse(v); if err != nil { return nil, err }; r.f = newVal
StoreParsed(r, f, p) ==
  IF p.err THEN Failed(r) ELSE Updated([r EXCEPT ![f] = p.val])

\* A bug: case "score" falls through to case "scoring".
ScoreCaseFallthrough(r, v) == StoreParsed(r, "ScoringRule", parseScoringRule(v))

\* case "score": an empty case; Go does not fall through.
ScoreCase(r, v) == Updated(r)

\* A bug: the hasButton case assigns r.FriendlyPassOk.
UpdateRulesWrongField(r, k, v) ==
  CASE k = "ko" -> StoreParsed(r, "KoRule", parseKoRule(v))
    [] k = "score" -> ScoreCase(r, v)
    [] k = "scoring" -> StoreParsed(r, "ScoringRule", parseScoringRule(v))
    [] k = "tax" -> StoreParsed(r, "TaxRule", parseTaxRule(v))
    [] k = "suicide" -> StoreParsed(r, "MultiStoneSuicide", stringToBool(v))
    [] k = "hasButton" -> StoreParsed(r, "FriendlyPassOk", stringToBool(v))
    [] k = "whiteHandicapBonus" ->
         StoreParsed(r, "WhiteHandicapBonus", parseWhiteHandicapBonus(v))
    [] k = "friendlyPassOk" -> StoreParsed(r, "FriendlyPassOk", stringToBool(v))
    [] OTHER -> Failed(r)

UpdateRulesResult(r, k, v) ==
  CASE k = "ko" -> StoreParsed(r, "KoRule", parseKoRule(v))
    [] k = "score" -> ScoreCase(r, v)
    [] k = "scoring" -> StoreParsed(r, "ScoringRule", parseScoringRule(v))
    [] k = "tax" -> StoreParsed(r, "TaxRule", parseTaxRule(v))
    [] k = "suicide" -> StoreParsed(r, "MultiStoneSuicide", stringToBool(v))
    [] k = "hasButton" -> StoreParsed(r, "HasButton", stringToBool(v))
    [] k = "whiteHandicapBonus" ->
         StoreParsed(r, "WhiteHandicapBonus", parseWhiteHandicapBonus(v))
    [] k = "friendlyPassOk" -> StoreParsed(r, "FriendlyPassOk", stringToBool(v))
    [] OTHER -> Failed(r)

(***************************************************************************)
(* The record of the last call: its operation, receiver and arguments,     *)
(* and what it returned (ret: a *Rules, err: an error was returned,        *)
(* str / flag / num: a string, boolean or integer result).                 *)
(***************************************************************************)
NoCall ==
  [op |-> "none", recv |-> Nil, k |-> "", v |-> "", name |-> <<>>, komi |-> 0,
   ret |-> Nil, err |-> FALSE, str |-> "", flag |-> FALSE, num |-> 0]

Addrs == 1..Len(heap)

\* func (r *Rules) UpdateRules(k, v string) (*Rules, error)
UpdateRules(a, k, v) ==
  /\ a \in Addrs
  /\ LET res == UpdateRulesResult(heap[a], k, v) IN
       /\ heap' = [heap EXCEPT ![a] = res.rules]
       /\ last' = [NoCall EXCEPT !.op = "UpdateRules", !.recv = a, !.k = k, !.v = v,
                                 !.ret = IF res.err THEN Nil ELSE a,
                                 !.err = res.err]
  /\ prev' = heap

\* func (r *Rules) GetTrompTaylorish() *Rules: the composite literal.
TrompTaylorish ==
  MkRules(KO_POSITIONAL, SCORE_AREA, TAX_NONE, WHB_ZERO, FALSE, FALSE, FALSE, Komi_7_5)

\* func (r *Rules) GetSimpleTerritory() *Rules: the composite literal.
SimpleTerritory ==
  MkRules(KO_SIMPLE, SCORE_TERRITORY, TAX_SEKI, WHB_ZERO, FALSE, FALSE, FALSE, Komi_7_5)

\* koRuleStrings() and its three siblings: the tokens in ordinal order.
koRuleStrings == <<"SIMPLE", "POSITIONAL", "SITUATIONAL", "SPIGHT">>
scoringRuleStrings == <<"AREA", "TERRITORY">>
taxRuleStrings == <<"NONE", "SEKI", "ALL">>
whiteHandicapBonusStrings == <<"ZERO", "N", "N-1">>

(***************************************************************************)
(* SpecUpdate: UpdateRules applied, any number of times, to one Rules      *)
(* drawn from UpdateStartRules, with every key of UpdateKeys and every     *)
(* value text of UpdateVals.                                               *)
(***************************************************************************)
UpdateStartRules == {TrompTaylorish, SimpleTerritory}

UpdateKeys ==
  {"ko", "score", "scoring", "tax", "suicide", "hasButton", "whiteHandicapBonus",
   "friendlyPassOk", "bogusKey", ""}

UpdateVals ==
  {"SIMPLE", "POSITIONAL", "SITUATIONAL", "SPIGHT", "AREA", "TERRITORY",
   "NONE", "SEKI", "ALL", "ZERO", "N", "N-1",
   "true", "True", "false", "False",
   "maybe", "simple", ""}

InitUpdate ==
  /\ heap \in {<<r>> : r \in UpdateStartRules}
  /\ prev = heap
  /\ last = NoCall

NextUpdate == \E k \in UpdateKeys, v \in UpdateVals : UpdateRules(1, k, v)

SpecUpdate == InitUpdate /\ [][NextUpdate]_vars

(***************************************************************************)
(* Claims about UpdateRules (checked under SpecUpdate)                     *)
(***************************************************************************)
SeqRange(s) == {s[i] : i \in 1..Len(s)}
IndexOf(s, x) == CHOOSE i \in 1..Len(s) : s[i] = x

FieldNames ==
  {"KoRule", "ScoringRule", "TaxRule", "WhiteHandicapBonus", "MultiStoneSuicide",
   "HasButton", "FriendlyPassOk", "Komi"}

\* The keys the claims call recognized, and the seven that name a field.
RecognizedKeys ==
  {"ko", "score", "scoring", "tax", "suicide", "hasButton", "whiteHandicapBonus",
   "friendlyPassOk"}
FieldOfKey ==
  [ko |-> "KoRule", scoring |-> "ScoringRule", tax |-> "TaxRule",
   suicide |-> "MultiStoneSuicide", hasButton |-> "HasButton",
   whiteHandicapBonus |-> "WhiteHandicapBonus", friendlyPassOk |-> "FriendlyPassOk"]
FieldKeys == DOMAIN FieldOfKey

BoolTexts == {"true", "True", "false", "False"}
\* The canonical tokens / boolean literals of a key; "score" has none.
TextsOfKey(k) ==
  CASE k = "ko" -> SeqRange(koRuleStrings)
    [] k = "scoring" -> SeqRange(scoringRuleStrings)
    [] k = "tax" -> SeqRange(taxRuleStrings)
    [] k = "whiteHandicapBonus" -> SeqRange(whiteHandicapBonusStrings)
    [] k \in {"suicide", "hasButton", "friendlyPassOk"} -> BoolTexts
    [] OTHER -> {}
\* The value a text of a key stands for.
ValueOfText(k, v) ==
  CASE k = "ko" -> IndexOf(koRuleStrings, v) - 1
    [] k = "scoring" -> IndexOf(scoringRuleStrings, v) - 1
    [] k = "tax" -> IndexOf(taxRuleStrings, v) - 1
    [] k = "whiteHandicapBonus" -> IndexOf(whiteHandicapBonusStrings, v) - 1
    [] OTHER -> v \in {"true", "True"}

Failure == last.err /\ last.ret = Nil /\ heap = prev

\* C1 as stated: an UpdateRules call whose key is not recognized, or whose key
\* is recognized (ko, score, scoring, tax, suicide, hasButton,
\* whiteHandicapBonus, friendlyPassOk) but whose value is not a canonical token
\* or boolean literal of that key, returns an error and no Rules, and leaves
\* all eight fields of the receiver as they were.
C1_AsStated ==
  (last.op = "UpdateRules"
     /\ (last.k \notin RecognizedKeys \/ last.v \notin TextsOfKey(last.k)))
  => Failure

\* C1 amended: the same for an unrecognized key and for the seven keys that
\* name a field (the key "score" takes every value text and succeeds); and
\* whenever UpdateRules returns an error it returns no Rules and the receiver's
\* eight fields are as they were.
C1_FailureLeavesReceiver ==
  last.op = "UpdateRules" =>
    /\ (last.k \notin RecognizedKeys
          \/ (last.k \in FieldKeys /\ last.v \notin TextsOfKey(last.k)))
       => Failure
    /\ last.err => Failure

\* UpdateRules("suicide", "maybe") failed on a receiver whose suicide flag is set.
C1_Witness ==
  /\ last.op = "UpdateRules" /\ last.k = "suicide" /\ last.v = "maybe"
  /\ last.err
  /\ heap[last.recv].MultiStoneSuicide

\* C2: an UpdateRules call with one of the seven field keys and a value that
\* parses for it succeeds, returns the receiver itself (no new Rules is made),
\* leaves the named field at the parsed value and every other field, komi
\* included, as it was.
C2_SuccessChangesOneField ==
  (last.op = "UpdateRules" /\ last.k \in FieldKeys /\ last.v \in TextsOfKey(last.k))
  => /\ ~last.err
     /\ last.ret = last.recv
     /\ Len(heap) = Len(prev)
     /\ heap[last.recv][FieldOfKey[last.k]] = ValueOfText(last.k, last.v)
     /\ \A f \in FieldNames \ {FieldOfKey[last.k]} :
          heap[last.recv][f] = prev[last.recv][f]

\* UpdateRules("hasButton", "True") succeeded on a receiver without button.
C2_Witness ==
  /\ last.op = "UpdateRules" /\ last.k = "hasButton" /\ last.v = "True"
  /\ ~last.err
  /\ ~prev[last.recv].HasButton /\ heap[last.recv].HasButton

\* C7: an UpdateRules call with the key "score" succeeds for every value text,
\* returns the receiver, and changes none of its eight fields.
C7_ScoreKeyIsNoOp ==
  (last.op = "UpdateRules" /\ last.k = "score")
  => ~last.err /\ last.ret = last.recv /\ heap = prev

\* UpdateRules("score", "TERRITORY") returned on an area-scoring receiver.
C7_Witness ==
  /\ last.op = "UpdateRules" /\ last.k = "score" /\ last.v = "TERRITORY"
  /\ heap[last.recv].ScoringRule = SCORE_AREA /\ ~last.err

(***************************************************************************)
(* Preset names.  strings.TrimSpace, strings.ReplaceAll(s, c, "") and      *)
(* strings.ToLower on sequences of one-character strings, over ASCII       *)
(* letters, the separators and the white space " ", tab and newline.       *)
(***************************************************************************)
UpperLetters ==
  <<"A", "B", "C", "D", "E", "F", "G", "H", "I", "J", "K", "L", "M",
    "N", "O", "P", "Q", "R", "S", "T", "U", "V", "W", "X", "Y", "Z">>
LowerLetters ==
  <<"a", "b", "c", "d", "e", "f", "g", "h", "i", "j", "k", "l", "m",
    "n", "o", "p", "q", "r", "s", "t", "u", "v", "w", "x", "y", "z">>

\* unicode.IsSpace, on the modelled characters
IsSpace(c) == c \in {" ", "\t", "\n"}

RECURSIVE TrimLeft(_)
TrimLeft(s) ==
  IF s # <<>> /\ IsSpace(Head(s)) THEN TrimLeft(Tail(s)) ELSE s

RECURSIVE TrimRight(_)
TrimRight(s) ==
  IF s # <<>> /\ IsSpace(s[Len(s)]) THEN TrimRight(SubSeq(s, 1, Len(s) - 1)) ELSE s

\* strings.TrimSpace(s)
TrimSpace(s) == TrimRight(TrimLeft(s))

\* strings.ReplaceAll(s, c, "") for a one-character c
RECURSIVE ReplaceAll(_, _)
ReplaceAll(s, c) ==
  IF s = <<>> THEN <<>>
  ELSE IF Head(s) = c THEN ReplaceAll(Tail(s), c)
  ELSE <<Head(s)>> \o ReplaceAll(Tail(s), c)

\* unicode.ToLower of one character
LowerChar(c) ==
  IF \E i \in 1..26 : UpperLetters[i] = c
  THEN LowerLetters[CHOOSE i \in 1..26 : UpperLetters[i] = c]
  ELSE c

\* strings.ToLower(s)
ToLower(s) == [i \in 1..Len(s) |-> LowerChar(s[i])]

\* A bug: spaces are not removed.
NormalizeKeepSpaces(s) ==
  ToLower(ReplaceAll(ReplaceAll(TrimSpace(s), "-"), "_"))

\* The five reassignments of s that open parseRulesHelper.
Normalize(s) ==
  ToLower(ReplaceAll(ReplaceAll(ReplaceAll(TrimSpace(s), "-"), "_"), " "))

\* The string literals parseRulesHelper compares s with.
Str_japanese == <<"j", "a", "p", "a", "n", "e", "s", "e">>
Str_korean == <<"k", "o", "r", "e", "a", "n">>
Str_chinese == <<"c", "h", "i", "n", "e", "s", "e">>
Str_chineseogs == <<"c", "h", "i", "n", "e", "s", "e", "o", "g", "s">>
Str_chinesekgs == <<"c", "h", "i", "n", "e", "s", "e", "k", "g", "s">>
Str_ancientarea == <<"a", "n", "c", "i", "e", "n", "t", "a", "r", "e", "a">>
Str_stonescoring == <<"s", "t", "o", "n", "e", "s", "c", "o", "r", "i", "n", "g">>
Str_ancientterritory == <<"a", "n", "c", "i", "e", "n", "t", "t", "e", "r", "r", "i", "t", "o", "r", "y">>
Str_agabutton == <<"a", "g", "a", "b", "u", "t", "t", "o", "n">>
Str_aga == <<"a", "g", "a">>
Str_bga == <<"b", "g", "a">>
Str_french == <<"f", "r", "e", "n", "c", "h">>
Str_newzealand == <<"n", "e", "w", "z", "e", "a", "l", "a", "n", "d">>
Str_nz == <<"n", "z">>
Str_goe == <<"g", "o", "e">>
Str_ing == <<"i", "n", "g">>

\* func (r *Rules) parseRulesHelper(s string) *Rules: the Rules it points to.
parseRulesHelper(name) ==
  LET s == Normalize(name) IN
  IF s = Str_japanese \/ s = Str_korean THEN
    MkRules(KO_SIMPLE, SCORE_TERRITORY, TAX_SEKI, WHB_ZERO, FALSE, FALSE, FALSE, Komi_6_5)
  ELSE IF s = Str_chinese THEN
    MkRules(KO_SIMPLE, SCORE_AREA, TAX_NONE, WHB_N, FALSE, FALSE, FALSE, Komi_7_5)
  ELSE IF s = Str_chineseogs \/ s = Str_chinesekgs THEN
    MkRules(KO_POSITIONAL, SCORE_AREA, TAX_NONE, WHB_N, FALSE, FALSE, TRUE, Komi_7_5)
  ELSE IF s = Str_ancientarea \/ s = Str_stonescoring THEN
    MkRules(KO_SIMPLE, SCORE_AREA, TAX_ALL, WHB_ZERO, FALSE, FALSE, TRUE, Komi_7_5)
  ELSE IF s = Str_ancientterritory THEN
    MkRules(KO_SIMPLE, SCORE_TERRITORY, TAX_ALL, WHB_ZERO, FALSE, FALSE, FALSE, Komi_6_5)
  ELSE IF s = Str_agabutton THEN
    MkRules(KO_SITUATIONAL, SCORE_AREA, TAX_NONE, WHB_N_MINUS_ONE, FALSE, TRUE, TRUE, Komi_7_0)
  ELSE IF s = Str_aga \/ s = Str_bga \/ s = Str_french THEN
    MkRules(KO_SITUATIONAL, SCORE_AREA, TAX_NONE, WHB_N_MINUS_ONE, FALSE, FALSE, TRUE, Komi_7_5)
  ELSE IF s = Str_newzealand \/ s = Str_nz THEN
    MkRules(KO_SITUATIONAL, SCORE_AREA, TAX_NONE, WHB_ZERO, TRUE, FALSE, TRUE, Komi_7_5)
  ELSE IF s = Str_goe \/ s = Str_ing THEN
    MkRules(KO_POSITIONAL, SCORE_AREA, TAX_NONE, WHB_ZERO, TRUE, FALSE, TRUE, Komi_7_5)
  ELSE TrompTaylorish

(***************************************************************************)
(* Allocation and the operations that make a Rules                         *)
(***************************************************************************)
\* A bug: a Rules equal to one already made is handed out again (a shared
\* preset object) instead of a fresh one.
NewRulesShared(h, r) ==
  IF \E i \in 1..Len(h) : h[i] = r
  THEN [heap |-> h, ret |-> CHOOSE i \in 1..Len(h) : h[i] = r]
  ELSE [heap |-> Append(h, r), ret |-> Len(h) + 1]

\* &Rules{...} (and a Rules returned by value): a fresh object
NewRules(h, r) == [heap |-> Append(h, r), ret |-> Len(h) + 1]

\* func (r *Rules) ParseRules(s string) *Rules
ParseRules(a, s) ==
  /\ a \in Addrs
  /\ LET new == NewRules(heap, parseRulesHelper(s)) IN
       /\ heap' = new.heap
       /\ last' = [NoCall EXCEPT !.op = "ParseRules", !.recv = a, !.name = s,
                                 !.ret = new.ret]
  /\ prev' = heap

\* func (r *Rules) ParseRulesWithoutKomi(s string, komi float32) *Rules
ParseRulesWithoutKomi(a, s, komi) ==
  /\ a \in Addrs
  /\ LET new == NewRules(heap, parseRulesHelper(s)) IN
       /\ heap' = [new.heap EXCEPT ![new.ret].Komi = komi]
       /\ last' = [NoCall EXCEPT !.op = "ParseRulesWithoutKomi", !.recv = a,
                                 !.name = s, !.komi = komi, !.ret = new.ret]
  /\ prev' = heap

\* func (r *Rules) CustomRules(koRule, ..., komi float32) Rules
CustomRules(a, koRule, scoreRule, taxRule, whbRule, suicide, button, passOk, komi) ==
  /\ a \in Addrs
  /\ LET new == NewRules(heap, MkRules(koRule, scoreRule, taxRule, whbRule,
                                        suicide, button, passOk, komi)) IN
       /\ heap' = new.heap
       /\ last' = [NoCall EXCEPT !.op = "CustomRules", !.recv = a, !.komi = komi,
                                 !.ret = new.ret]
  /\ prev' = heap

\* func (r *Rules) GetTrompTaylorish() *Rules
GetTrompTaylorish(a) ==
  /\ a \in Addrs
  /\ LET new == NewRules(heap, TrompTaylorish) IN
       /\ heap' = new.heap
       /\ last' = [NoCall EXCEPT !.op = "GetTrompTaylorish", !.recv = a,
                                 !.ret = new.ret]
  /\ prev' = heap

\* func (r *Rules) GetSimpleTerritory() *Rules
GetSimpleTerritory(a) ==
  /\ a \in Addrs
  /\ LET new == NewRules(heap, SimpleTerritory) IN
       /\ heap' = new.heap
       /\ last' = [NoCall EXCEPT !.op = "GetSimpleTerritory", !.recv = a,
                                 !.ret = new.ret]
  /\ prev' = heap

(***************************************************************************)
(* The preset table of the specification, as data: the rows in the order   *)
(* ko, scoring, tax, suicide, button, whb, friendlyPass, komi, and the     *)
(* normalisation it describes, both written without the code's helpers.    *)
(***************************************************************************)
RefRow(ko, scoring, tax, suicide, button, whb, friendlyPass, komi) ==
  [KoRule |-> IndexOf(koRuleStrings, ko) - 1,
   ScoringRule |-> IndexOf(scoringRuleStrings, scoring) - 1,
   TaxRule |-> IndexOf(taxRuleStrings, tax) - 1,
   WhiteHandicapBonus |-> IndexOf(whiteHandicapBonusStrings, whb) - 1,
   MultiStoneSuicide |-> suicide, HasButton |-> button,
   FriendlyPassOk |-> friendlyPass, Komi |-> komi]

RefDefault == RefRow("POSITIONAL", "AREA", "NONE", FALSE, FALSE, "ZERO", FALSE, 30)

RefTable ==
  <<[keys |-> {Str_japanese, Str_korean},
     row |-> RefRow("SIMPLE", "TERRITORY", "SEKI", FALSE, FALSE, "ZERO", FALSE, 26)],
    [keys |-> {Str_chinese},
     row |-> RefRow("SIMPLE", "AREA", "NONE", FALSE, FALSE, "N", FALSE, 30)],
    [keys |-> {Str_chineseogs, Str_chinesekgs},
     row |-> RefRow("POSITIONAL", "AREA", "NONE", FALSE, FALSE, "N", TRUE, 30)],
    [keys |-> {Str_ancientarea, Str_stonescoring},
     row |-> RefRow("SIMPLE", "AREA", "ALL", FALSE, FALSE, "ZERO", TRUE, 30)],
    [keys |-> {Str_ancientterritory},
     row |-> RefRow("SIMPLE", "TERRITORY", "ALL", FALSE, FALSE, "ZERO", FALSE, 26)],
    [keys |-> {Str_agabutton},
     row |-> RefRow("SITUATIONAL", "AREA", "NONE", FALSE, TRUE, "N-1", TRUE, 28)],
    [keys |-> {Str_aga, Str_bga, Str_french},
     row |-> RefRow("SITUATIONAL", "AREA", "NONE", FALSE, FALSE, "N-1", TRUE, 30)],
    [keys |-> {Str_newzealand, Str_nz},
     row |-> RefRow("SITUATIONAL", "AREA", "NONE", TRUE, FALSE, "ZERO", TRUE, 30)],
    [keys |-> {Str_goe, Str_ing},
     row |-> RefRow("POSITIONAL", "AREA", "NONE", TRUE, FALSE, "ZERO", TRUE, 30)]>>

RefKeys == UNION {RefTable[i].keys : i \in 1..Len(RefTable)}

RefLookup(n) ==
  IF n \in RefKeys
  THEN RefTable[CHOOSE i \in 1..Len(RefTable) : n \in RefTable[i].keys].row
  ELSE RefDefault

\* The name between its first and last character that is not white space,
\* without its hyphens, underscores and spaces, in lower case.
RefNormalize(s) ==
  LET inked == {i \in 1..Len(s) : s[i] \notin {" ", "\t", "\n"}}
      lo == CHOOSE i \in inked : \A j \in inked : i <= j
      hi == CHOOSE i \in inked : \A j \in inked : j <= i
      kept == IF inked = {} THEN <<>>
              ELSE SelectSeq(SubSeq(s, lo, hi), LAMBDA c : c \notin {"-", "_", " "})
      lower(c) == IF c \in SeqRange(UpperLetters)
                  THEN LowerLetters[IndexOf(UpperLetters, c)] ELSE c
  IN [i \in 1..Len(kept) |-> lower(kept[i])]

(***************************************************************************)
(* SpecPreset: ParseRules applied once to each name of PresetNames: every  *)
(* preset key and some near misses, in lower case, upper case and          *)
(* capitalised, with one separator or white-space character put in at any  *)
(* place, with and without white space around it.                          *)
(***************************************************************************)
NameBases ==
  RefKeys \cup
  {<<>>, <<"t", "r", "o", "m", "p", "t", "a", "y", "l", "o", "r", "i", "s", "h">>, <<"s", "i", "m", "p", "l", "e", "t", "e", "r", "r", "i", "t", "o", "r", "y">>,
   <<"c", "h", "i", "n", "e", "s", "e", "e">>, <<"h", "i", "n", "e", "s", "e">>, <<"n">>,
   <<"a", "g", "a", "b", "u", "t", "t", "o", "n", "s">>}

ToUpper(s) ==
  [i \in 1..Len(s) |-> IF s[i] \in SeqRange(LowerLetters)
                       THEN UpperLetters[IndexOf(LowerLetters, s[i])] ELSE s[i]]
Capitalised(s) == IF s = <<>> THEN s ELSE ToUpper(SubSeq(s, 1, 1)) \o Tail(s)
InsertAt(s, i, c) == SubSeq(s, 1, i) \o <<c>> \o SubSeq(s, i + 1, Len(s))

CasedNames == UNION {{b, ToUpper(b), Capitalised(b)} : b \in NameBases}
InsertedNames ==
  {InsertAt(n[1], n[2], n[3]) :
     n \in {m \in CasedNames \X (0..16) \X {"-", "_", " ", "\t"} : m[2] <= Len(m[1])}}
ExtraNames ==
  {<<"n", "o", "t", "-", "a", "-", "r", "e", "a", "l", "-", "r", "u", "l", "e", "s", "e", "t">>, <<"N", "e", "w", "_", "Z", "e", "a", "-", "l", "a", "n", "d">>,
   <<"a", " ", "n", " ", "c", " ", "i", " ", "e", " ", "n", " ", "t", " ", "-", " ", "a", " ", "r", " ", "e", " ", "a">>, <<"-", "\t", "n", "z">>,
   <<" ", "_", " ", "g", "o", "e">>, <<"\n">>, <<" ", " ">>, <<"-">>}
PresetNames ==
  {w[1] \o n \o w[2] :
     w \in {<<>>, <<" ">>, <<"\t", " ">>} \X {<<>>, <<" ">>, <<"\n">>},
     n \in CasedNames \cup InsertedNames \cup ExtraNames}

InitPreset ==
  /\ heap = <<ZeroRules>>
  /\ prev = heap
  /\ last = NoCall

NextPreset == Len(heap) = 1 /\ \E s \in PresetNames : ParseRules(1, s)

SpecPreset == InitPreset /\ [][NextPreset]_vars

\* C5: ParseRules never fails and returns, for every name, the row the preset
\* table gives for the name trimmed of surrounding white space, stripped of
\* hyphens, underscores and spaces and lower-cased, and the Tromp-Taylor-ish
\* default (Positional, Area, None, false, false, Zero, false, 7.5) when that
\* is no preset key, the empty name included.
C5_ParseRulesIsTableLookup ==
  last.op = "ParseRules" =>
    /\ last.ret \in Addrs /\ ~last.err
    /\ heap[last.ret] = RefLookup(RefNormalize(last.name))
    /\ (RefNormalize(last.name) \notin RefKeys =>
          heap[last.ret] =
            MkRules(KO_POSITIONAL, SCORE_AREA, TAX_NONE, WHB_ZERO,
                    FALSE, FALSE, FALSE, 30))

\* ParseRules("CHI NESE ") returned the Chinese preset.
C5_Witness ==
  /\ last.op = "ParseRules"
  /\ last.name = <<"C", "H", "I", " ", "N", "E", "S", "E", " ">>
  /\ heap[last.ret] =
       MkRules(KO_SIMPLE, SCORE_AREA, TAX_NONE, WHB_N, FALSE, FALSE, FALSE, 30)

(***************************************************************************)
(* Spec: the life of Rules values.  From one zero Rules, any interleaving  *)
(* of the operations that make a Rules (at most MaxObjs objects in all)    *)
(* and of UpdateRules on any of them.                                      *)
(***************************************************************************)
MaxObjs == 3

\* Preset names given to the lookups: two spellings of one key and a name
\* that is no key.
LifeNames == {<<"C", "h", "i", "n", "e", "s", "e">>, <<"c", "h", "i", " ", "n", "e", "s", "e">>, <<>>}

\* The komi given to ParseRulesWithoutKomi: 0.5
LifeKomis == {2}

\* Arguments of CustomRules: in range, and integers outside the enumerations
\* (the parameters are plain int), among them the -1 of a failed parse.
CustomArgs ==
  {<<KO_SITUATIONAL, SCORE_TERRITORY, TAX_ALL, WHB_N, TRUE, FALSE, TRUE, 0>>,
   <<-1, 2, TAX_NONE, 3, FALSE, TRUE, FALSE, 25>>}

\* Key/value pairs given to UpdateRules: one that succeeds and changes a
\* field, the no-op key, a value that does not parse and a key that is unknown.
LifeUpdates ==
  {<<"ko", "SPIGHT">>, <<"score", "TERRITORY">>, <<"tax", "bogus">>,
   <<"bogusKey", "x">>}

Init ==
  /\ heap = <<ZeroRules>>
  /\ prev = heap
  /\ last = NoCall

\* The model's bound on the number of objects.
CanAllocate == Len(heap) < MaxObjs

Next ==
  \/ \E a \in Addrs, c \in CustomArgs :
       CanAllocate /\ CustomRules(a, c[1], c[2], c[3], c[4], c[5], c[6], c[7], c[8])
  \/ \E a \in Addrs : CanAllocate /\ GetTrompTaylorish(a)
  \/ \E a \in Addrs : CanAllocate /\ GetSimpleTerritory(a)
  \/ \E a \in Addrs, s \in LifeNames : CanAllocate /\ ParseRules(a, s)
  \/ \E a \in Addrs, s \in LifeNames, komi \in LifeKomis :
       CanAllocate /\ ParseRulesWithoutKomi(a, s, komi)
  \/ \E a \in Addrs, u \in LifeUpdates : UpdateRules(a, u[1], u[2])

Spec == Init /\ [][Next]_vars

\* C3: in every reachable state every Rules holds, in each of its four
\* enumeration fields, a value of that field's closed set: KoRule one of
\* Simple..Spight, ScoringRule Area or Territory, TaxRule None, Seki or All,
\* WhiteHandicapBonus Zero, N or N-1; never the -1 of a failed parse.
C3_EnumFieldsInClosedSets ==
  \A a \in Addrs :
    /\ heap[a].KoRule \in {KO_SIMPLE, KO_POSITIONAL, KO_SITUATIONAL, KO_SPIGHT}
    /\ heap[a].ScoringRule \in {SCORE_AREA, SCORE_TERRITORY}
    /\ heap[a].TaxRule \in {TAX_NONE, TAX_SEKI, TAX_ALL}
    /\ heap[a].WhiteHandicapBonus \in {WHB_ZERO, WHB_N, WHB_N_MINUS_ONE}

\* C6: a preset lookup (ParseRules, ParseRulesWithoutKomi) always returns a
\* Rules that did not exist before, holding the preset table's row for the
\* name (for ParseRulesWithoutKomi with the komi given instead of the table's),
\* whatever was done before to Rules resolved earlier; it changes no existing
\* Rules, the receiver included; and UpdateRules changes no Rules but its
\* receiver, so two Rules resolved from one name never share state.
C6_LookupsAreFresh ==
  /\ last.op \in {"ParseRules", "ParseRulesWithoutKomi"} =>
       /\ last.ret \notin 1..Len(prev)
       /\ last.ret \in Addrs
       /\ \A a \in 1..Len(prev) : heap[a] = prev[a]
  /\ last.op = "ParseRules" =>
       heap[last.ret] = RefLookup(RefNormalize(last.name))
  /\ last.op = "ParseRulesWithoutKomi" =>
       heap[last.ret] =
         [RefLookup(RefNormalize(last.name)) EXCEPT !.Komi = last.komi]
  /\ last.op = "UpdateRules" =>
       /\ Len(heap) = Len(prev)
       /\ \A a \in Addrs \ {last.recv} : heap[a] = prev[a]

\* ParseRules("Chinese") returned the Chinese preset, komi 7.5, while the
\* Rules made just before it is a Chinese preset whose ko rule and komi have
\* since been changed.
C6_Witness ==
  /\ last.op = "ParseRules" /\ last.name = <<"C", "h", "i", "n", "e", "s", "e">>
  /\ last.ret = 3
  /\ heap[3] = MkRules(KO_SIMPLE, SCORE_AREA, TAX_NONE, WHB_N, FALSE, FALSE, FALSE, 30)
  /\ heap[2] = MkRules(KO_SPIGHT, SCORE_AREA, TAX_NONE, WHB_N, FALSE, FALSE, FALSE, 2)

(***************************************************************************)
(* Komi predicates.  int(x) of a float32 truncates toward zero and         *)
(* float32(n) of a small int is exact; both on quarter points.             *)
(***************************************************************************)
IntOfFloat(q) == IF q >= 0 THEN q \div 4 ELSE -((-q) \div 4)
FloatOfInt(n) == 4 * n

\* math.IsInf(float64(komi), 0): every modelled komi is finite.
IsInf(komi) == FALSE

\* A bug: the button is looked at only for an integer komi.
GameResultWillBeIntegerNoXor(r) ==
  LET komiIsInteger == FloatOfInt(IntOfFloat(r.Komi)) = r.Komi IN
  komiIsInteger /\ ~r.HasButton

\* func (r *Rules) GameResultWillBeInteger() bool: its result
GameResultWillBeIntegerValue(r) ==
  LET komiIsInteger == FloatOfInt(IntOfFloat(r.Komi)) = r.Komi IN
  komiIsInteger # r.HasButton

\* func komiIsIntOrHalfInt(komi float32) bool
komiIsIntOrHalfInt(komi) ==
  ~IsInf(komi) /\ komi * 2 = FloatOfInt(IntOfFloat(komi) * 2)

GameResultWillBeInteger(a) ==
  /\ a \in Addrs
  /\ last' = [NoCall EXCEPT !.op = "GameResultWillBeInteger", !.recv = a,
                            !.flag = GameResultWillBeIntegerValue(heap[a])]
  /\ heap' = heap
  /\ prev' = heap

\* komiIsIntOrHalfInt called with the komi of a Rules
CheckKomi(a) ==
  /\ a \in Addrs
  /\ last' = [NoCall EXCEPT !.op = "komiIsIntOrHalfInt", !.recv = a,
                            !.komi = heap[a].Komi,
                            !.flag = komiIsIntOrHalfInt(heap[a].Komi)]
  /\ heap' = heap
  /\ prev' = heap

(***************************************************************************)
(* SpecKomi: the two komi predicates on Rules whose komi is any multiple   *)
(* of 0.25 from MIN_USER_KOMI to MAX_USER_KOMI, with and without button.   *)
(***************************************************************************)
KomiValues == (4 * MIN_USER_KOMI)..(4 * MAX_USER_KOMI)

KomiStartRules ==
  {TrompTaylorish,
   MkRules(KO_SPIGHT, SCORE_TERRITORY, TAX_ALL, WHB_N, TRUE, FALSE, TRUE, 0)}

InitKomi ==
  /\ heap \in {<<[r EXCEPT !.Komi = q, !.HasButton = b]>> :
                 r \in KomiStartRules, q \in KomiValues, b \in BOOLEAN}
  /\ prev = heap
  /\ last = NoCall

NextKomi ==
  \/ \E a \in Addrs : GameResultWillBeInteger(a)
  \/ \E a \in Addrs : CheckKomi(a)

SpecKomi == InitKomi /\ [][NextKomi]_vars

\* C4: komiIsIntOrHalfInt(value) is true exactly when twice the value is an
\* integer: true for every integer and every half-integer komi, false for
\* every other multiple of 0.25, from -150 to 150.
C4_IntOrHalfInt ==
  last.op = "komiIsIntOrHalfInt" => (last.flag <=> last.komi % 2 = 0)

\* C9: GameResultWillBeInteger() is (komi is an integer) XOR hasButton, for
\* every komi of the range, negative ones included; it reads no other field
\* and changes none.
C9_ResultIntegerIsXor ==
  last.op = "GameResultWillBeInteger" =>
    /\ last.flag = ((heap[last.recv].Komi % 4 = 0) # heap[last.recv].HasButton)
    /\ heap = prev

\* GameResultWillBeInteger() returned true for komi -6.5 with the button.
C9_Witness ==
  /\ last.op = "GameResultWillBeInteger"
  /\ heap[last.recv].Komi = -26 /\ heap[last.recv].HasButton
  /\ last.flag

(***************************************************************************)
(* Display strings                                                         *)
(***************************************************************************)
Digits == <<"0", "1", "2", "3", "4", "5", "6", "7", "8", "9">>

RECURSIVE NatText(_)
NatText(n) ==
  IF n < 10 THEN Digits[n + 1] ELSE NatText(n \div 10) \o Digits[(n % 10) + 1]

\* strconv.FormatFloat(float64(komi), 'f', -1, 32): the shortest decimal that
\* reads back as the same float32, which for a multiple of 0.25 is its exact
\* decimal expansion.
FormatFloat(q) ==
  LET m == IF q < 0 THEN -q ELSE q
      frac == CASE m % 4 = 0 -> ""
                [] m % 4 = 1 -> ".25"
                [] m % 4 = 2 -> ".5"
                [] m % 4 = 3 -> ".75"
  IN (IF q < 0 THEN "-" ELSE "") \o NatText(m \div 4) \o frac

\* A bug: the second White Handicap Bonus clause is left out.
ToStringNoKomiOnce(r) ==
  "Ko Rule: " \o writeKoRule(r.KoRule)
    \o ", Scoring Rule: " \o writeScoringRule(r.ScoringRule)
    \o ", Tax Rule: " \o writeTaxRule(r.TaxRule)
    \o ", White Handicap Bonus: " \o writeWhiteHandicapBonus(r.WhiteHandicapBonus)
    \o (IF r.MultiStoneSuicide THEN ", Suicide Allowed" ELSE "")
    \o (IF r.HasButton THEN ", Has Button" ELSE "")
    \o (IF r.FriendlyPassOk THEN ", Friendly Pass OK" ELSE "")

\* func (r *Rules) ToStringNoKomi() string: the builder's content
ToStringNoKomiText(r) ==
  "Ko Rule: " \o writeKoRule(r.KoRule)
    \o ", Scoring Rule: " \o writeScoringRule(r.ScoringRule)
    \o ", Tax Rule: " \o writeTaxRule(r.TaxRule)
    \o ", White Handicap Bonus: " \o writeWhiteHandicapBonus(r.WhiteHandicapBonus)
    \o (IF r.MultiStoneSuicide THEN ", Suicide Allowed" ELSE "")
    \o (IF r.HasButton THEN ", Has Button" ELSE "")
    \o (IF r.WhiteHandicapBonus # WHB_ZERO
        THEN ", White Handicap Bonus: "
               \o writeWhiteHandicapBonus(r.WhiteHandicapBonus)
        ELSE "")
    \o (IF r.FriendlyPassOk THEN ", Friendly Pass OK" ELSE "")

\* func (r *Rules) ToString() string: the builder's content
ToStringText(r) == ToStringNoKomiText(r) \o ", Komi: " \o FormatFloat(r.Komi)

ToStringNoKomi(a) ==
  /\ a \in Addrs
  /\ last' = [NoCall EXCEPT !.op = "ToStringNoKomi", !.recv = a,
                            !.str = ToStringNoKomiText(heap[a])]
  /\ heap' = heap
  /\ prev' = heap

ToString(a) ==
  /\ a \in Addrs
  /\ last' = [NoCall EXCEPT !.op = "ToString", !.recv = a,
                            !.str = ToStringText(heap[a])]
  /\ heap' = heap
  /\ prev' = heap

\* A writer's token given back to the parser of the same enumeration.
WriteThenParse(a, op, token, parsed) ==
  /\ a \in Addrs
  /\ last' = [NoCall EXCEPT !.op = op, !.recv = a, !.str = token,
                            !.num = parsed.val, !.err = parsed.err]
  /\ heap' = heap
  /\ prev' = heap

RoundTripKoRule(a) ==
  WriteThenParse(a, "RoundTripKoRule", writeKoRule(heap[a].KoRule),
                 parseKoRule(writeKoRule(heap[a].KoRule)))
RoundTripScoringRule(a) ==
  WriteThenParse(a, "RoundTripScoringRule", writeScoringRule(heap[a].ScoringRule),
                 parseScoringRule(writeScoringRule(heap[a].ScoringRule)))
RoundTripTaxRule(a) ==
  WriteThenParse(a, "RoundTripTaxRule", writeTaxRule(heap[a].TaxRule),
                 parseTaxRule(writeTaxRule(heap[a].TaxRule)))
RoundTripWhiteHandicapBonus(a) ==
  WriteThenParse(a, "RoundTripWhiteHandicapBonus",
                 writeWhiteHandicapBonus(heap[a].WhiteHandicapBonus),
                 parseWhiteHandicapBonus(writeWhiteHandicapBonus(heap[a].WhiteHandicapBonus)))

(***************************************************************************)
(* SpecText: the renderings and the write/parse round trips on every       *)
(* Rules whose enumeration fields are any variant or an integer just       *)
(* outside the enumeration, with any flags and a komi of TextKomis.        *)
(***************************************************************************)
\* 7.5, 7, 6.25, -0.5, 0 and 150, with their decimal texts
TextKomis == {30, 28, 25, -2, 0, 600}
KomiText ==
  [q \in TextKomis |->
     CASE q = 30 -> "7.5" [] q = 28 -> "7" [] q = 25 -> "6.25"
       [] q = -2 -> "-0.5" [] q = 0 -> "0" [] q = 600 -> "150"]

TextRules ==
  {MkRules(ko, sc, tax, whb, su, bu, po, q) :
     ko \in -1..4, sc \in 0..2, tax \in 0..3, whb \in 0..3,
     su \in BOOLEAN, bu \in BOOLEAN, po \in BOOLEAN, q \in TextKomis}

InitText ==
  /\ heap \in {<<r>> : r \in TextRules}
  /\ prev = heap
  /\ last = NoCall

NextText ==
  \/ \E a \in Addrs : ToStringNoKomi(a)
  \/ \E a \in Addrs : ToString(a)
  \/ \E a \in Addrs : RoundTripKoRule(a)
  \/ \E a \in Addrs : RoundTripScoringRule(a)
  \/ \E a \in Addrs : RoundTripTaxRule(a)
  \/ \E a \in Addrs : RoundTripWhiteHandicapBonus(a)

SpecText == InitText /\ [][NextText]_vars

KoVariants == {KO_SIMPLE, KO_POSITIONAL, KO_SITUATIONAL, KO_SPIGHT}
ScoringVariants == {SCORE_AREA, SCORE_TERRITORY}
TaxVariants == {TAX_NONE, TAX_SEKI, TAX_ALL}
WhbVariants == {WHB_ZERO, WHB_N, WHB_N_MINUS_ONE}

Injective(write(_), variants) ==
  /\ \A v, w \in variants : write(v) = write(w) => v = w
  /\ \A v \in variants : write(v) # "UNKNOWN"

\* C8: for each of the four enumerations, parsing the token written for a
\* variant succeeds and gives that variant back; the tokens of one enumeration
\* are pairwise distinct and none is "UNKNOWN".
C8_RoundTrip ==
  LET r == heap[last.recv]
      back(v) == ~last.err /\ last.num = v
  IN
  /\ (last.op = "RoundTripKoRule" /\ r.KoRule \in KoVariants) => back(r.KoRule)
  /\ (last.op = "RoundTripScoringRule" /\ r.ScoringRule \in ScoringVariants)
       => back(r.ScoringRule)
  /\ (last.op = "RoundTripTaxRule" /\ r.TaxRule \in TaxVariants) => back(r.TaxRule)
  /\ (last.op = "RoundTripWhiteHandicapBonus" /\ r.WhiteHandicapBonus \in WhbVariants)
       => back(r.WhiteHandicapBonus)
  /\ Injective(writeKoRule, KoVariants)
  /\ Injective(writeScoringRule, ScoringVariants)
  /\ Injective(writeTaxRule, TaxVariants)
  /\ Injective(writeWhiteHandicapBonus, WhbVariants)

\* "SITUATIONAL", written for the ko rule of a Rules, parsed back to it.
C8_Witness ==
  /\ last.op = "RoundTripKoRule"
  /\ heap[last.recv].KoRule = KO_SITUATIONAL
  /\ last.str = "SITUATIONAL" /\ last.num = KO_SITUATIONAL /\ ~last.err

RECURSIVE JoinClauses(_)
JoinClauses(cs) ==
  IF Len(cs) = 1 THEN cs[1] ELSE cs[1] \o ", " \o JoinClauses(Tail(cs))

\* The clauses of the display string, in order.
DisplayClauses(r) ==
  <<"Ko Rule: " \o writeKoRule(r.KoRule),
    "Scoring Rule: " \o writeScoringRule(r.ScoringRule),
    "Tax Rule: " \o writeTaxRule(r.TaxRule),
    "White Handicap Bonus: " \o writeWhiteHandicapBonus(r.WhiteHandicapBonus)>>
  \o (IF r.MultiStoneSuicide THEN <<"Suicide Allowed">> ELSE <<>>)
  \o (IF r.HasButton THEN <<"Has Button">> ELSE <<>>)
  \o (IF r.WhiteHandicapBonus = WHB_ZERO THEN <<>>
      ELSE <<"White Handicap Bonus: " \o writeWhiteHandicapBonus(r.WhiteHandicapBonus)>>)
  \o (IF r.FriendlyPassOk THEN <<"Friendly Pass OK">> ELSE <<>>)

\* C10: ToStringNoKomi is, joined by ", ": the four clauses Ko Rule, Scoring
\* Rule, Tax Rule, White Handicap Bonus, then "Suicide Allowed" iff
\* MultiStoneSuicide, "Has Button" iff HasButton, White Handicap Bonus again
\* iff it is not Zero, "Friendly Pass OK" iff FriendlyPassOk; ToString is that
\* followed by ", Komi: " and the komi; the Tromp-Taylor-ish default renders
\* as "Ko Rule: POSITIONAL, Scoring Rule: AREA, Tax Rule: NONE, White
\* Handicap Bonus: ZERO, Komi: 7.5".
C10_DisplayString ==
  LET r == heap[last.recv] IN
  /\ last.op = "ToStringNoKomi" => last.str = JoinClauses(DisplayClauses(r))
  /\ last.op = "ToString" =>
       /\ last.str = JoinClauses(DisplayClauses(r)) \o ", Komi: " \o KomiText[r.Komi]
       /\ r = MkRules(KO_POSITIONAL, SCORE_AREA, TAX_NONE, WHB_ZERO,
                      FALSE, FALSE, FALSE, 30)
          => last.str = "Ko Rule: POSITIONAL, Scoring Rule: AREA, Tax Rule: NONE, White Handicap Bonus: ZERO, Komi: 7.5"

\* ToString() of a Rules with every optional clause:
C10_Witness ==
  /\ last.op = "ToString"
  /\ last.str = "Ko Rule: SPIGHT, Scoring Rule: TERRITORY, Tax Rule: ALL, White Handicap Bonus: N-1, Suicide Allowed, Has Button, White Handicap Bonus: N-1, Friendly Pass OK, Komi: 6.25"

====
